---- MODULE Spec2Model ----
(***************************************************************************)
(* Model of cmost_analysis.py: standard_analysis_products and hist_page.   *)
(*                                                                         *)
(* The script is one sequential run over a directory of exposures.  The    *)
(* directory content (file names, and what the exposure loader returns for *)
(* each file prefix) is the input, held in `disk`; it is drawn in Init and *)
(* never changes.  Every other variable is a local of the function.        *)
(*                                                                         *)
(* Numbers.  Pixel values and medians are kept exact:                      *)
(*   - an image is a sequence of pixels in half-ADU (value times 2), so    *)
(*     that the median of an even number of frames is an integer;          *)
(*   - dark_current and well_depth are rationals [num, den];               *)
(*   - read_noise is an integer; the variances on disk are fourth powers,  *)
(*     so both square roots the code takes are exact.                      *)
(* The gain k comes out of the Levenberg-Marquardt fit of an external      *)
(* library, a function of the channel's data: disk.k holds, per channel,   *)
(* the value the fit gives, any value of KValues.                          *)
(***************************************************************************)
EXTENDS Integers, Sequences, FiniteSets, TLC

\* ------------------------------------------------------------- bounds
MaxFiles == 2      \* files in the directory
MaxBias == 2       \* exposures the loader returns for the bias prefix
MaxRamp == 2       \* exposures of one flat ramp
MaxExp == 2        \* largest exposure time of a flat
MaxPix == 2        \* largest pixel value (ADU)
NPix == 2          \* pixels of a frame
MaxRoot == 2       \* variances on disk are r^4 for r in 1..MaxRoot
MaxK == 2          \* largest gain the fit returns

\* --------------------------------------------------- program constants
MidLow == 5000
Saturation == 15000
FUVLong == 900
FUVShort == 9
NUVLong == 300
NUVShort == 3
NDarkFrames == 9
NChannels == 4

HDH == "high (dual-gain)"
HDL == "low (dual-gain)"
Conditions == {"bias", "dark", "flat"}
GainModes == {"hdr", "high", "low"}
FlatGains == <<"hdr", "high", "low">>
DarkModes == <<"FUVdark", "NUVdark", "NUVguidingdark">>
DarkNames == <<"short low-gain", "short high-gain", "long low-gain", "long high-gain">>

\* ------------------------------------------------------------ helpers
Range(s) == {s[i] : i \in DOMAIN s}

Rat(n, d) == [num |-> n, den |-> d]
RatEq(a, b) == a.num * b.den = b.num * a.den
RatMul(a, k) == [num |-> a.num * k, den |-> a.den]

\* np.sqrt on the values the model stores (perfect squares: the root is exact)
Sqrt(x) == CHOOSE r \in 0..x : r * r <= x /\ (r + 1) * (r + 1) > x

RECURSIVE Insert(_, _)
Insert(x, s) ==
    IF s = <<>> THEN <<x>>
    ELSE IF x <= Head(s) THEN <<x>> \o s
    ELSE <<Head(s)>> \o Insert(x, Tail(s))

RECURSIVE Sort(_)
Sort(s) == IF s = <<>> THEN <<>> ELSE Insert(Head(s), Sort(Tail(s)))

\* np.median of a non-empty list, times 2: the middle element of the sorted
\* list, or the mean of the two middle ones
MedianX2(s) ==
    LET n == Len(s)
        t == Sort(s)
    IN  IF n % 2 = 1 THEN 2 * t[(n + 1) \div 2] ELSE t[n \div 2] + t[n \div 2 + 1]

\* np.median(stack, axis=0): the pixel-wise median of a stack of frames (ADU),
\* as an image in half-ADU
MedianFrame(stack) ==
    [p \in DOMAIN stack[1] |-> MedianX2([f \in DOMAIN stack |-> stack[f][p]])]

\* one frame (ADU) as an image in half-ADU
Image(frame) == [p \in DOMAIN frame |-> 2 * frame[p]]

\* np.median of an image (half-ADU), as a rational number of ADU
ImageMedian(img) == Rat(MedianX2(img), 4)

RECURSIVE SeqMin(_)
SeqMin(s) ==
    IF Len(s) = 1 THEN s[1]
    ELSE LET m == SeqMin(Tail(s)) IN IF s[1] <= m THEN s[1] ELSE m

RECURSIVE SeqMax(_)
SeqMax(s) ==
    IF Len(s) = 1 THEN s[1]
    ELSE LET m == SeqMax(Tail(s)) IN IF s[1] >= m THEN s[1] ELSE m

\* mutant of ArgMax: the last exposure of the ramp taken for the longest
ArgMax_Last(s) == Len(s)

\* np.argmax: the first index of the largest element
ArgMax(s) == CHOOSE i \in DOMAIN s : s[i] = SeqMax(s) /\ \A j \in 1..(i - 1) : s[j] < s[i]

\* np.where(mask)[0]: the indices, in order, where the mask holds
RECURSIVE WhereFrom(_, _)
WhereFrom(mask, i) ==
    IF i > Len(mask) THEN <<>>
    ELSE (IF mask[i] THEN <<i>> ELSE <<>>) \o WhereFrom(mask, i + 1)

Where(mask) == WhereFrom(mask, 1)

\* a[mask]: boolean-mask indexing
Select(a, mask) == LET w == Where(mask) IN [n \in DOMAIN w |-> a[w[n]]]

\* ------------------------------------------------------------- inputs
Labels == {HDH, HDL, "high", "low"}
PixVals == 1..MaxPix
Arrays == [1..NPix -> PixVals]
VarValues == {r * r * r * r : r \in 1..MaxRoot}
KValues == 1..MaxK
ExpTimes == 0..MaxExp
MidValue == (MidLow + Saturation) \div 2
MedValues == {MidLow, MidValue, Saturation}
NChan(gain) == IF gain = "hdr" THEN 2 ELSE 1

\* the reference directory: every condition present, every image with
\* structure, every ramp with a mid-range exposure
CArr == [p \in 1..NPix |-> IF p = 1 THEN 1 ELSE MaxPix]
CVar == MaxRoot * MaxRoot * MaxRoot * MaxRoot
CStack == [f \in 1..NDarkFrames |-> CArr]
CFiles == <<{"bias"}, {"dark"}, {"flat"}>>
CBiasExp(gain) ==
    [gain |-> gain,
     var |-> [c \in 1..NChan(gain) |-> IF c = 1 THEN CVar ELSE 1],
     cds |-> [c \in 1..NChan(gain) |-> <<CArr>>]]
CBias == <<CBiasExp("hdr"), CBiasExp("high"), CBiasExp("low")>>
CDarkMode ==
    [missing |-> FALSE, short_low |-> CStack, short_high |-> CStack,
     long_low |-> CStack, long_high |-> CStack]
CDark == [m \in Range(DarkModes) |-> CDarkMode]
FlatExp(gain, t, meds, vars, arrs) ==
    [exp_time |-> t, med |-> meds, var |-> vars, cds |-> arrs]
CFlatExp(gain, t, m) ==
    FlatExp(gain, t, [c \in 1..NChan(gain) |-> m], [c \in 1..NChan(gain) |-> t * t * t * t],
            [c \in 1..NChan(gain) |-> CArr])
CRamp(gain) == <<CFlatExp(gain, 1, MidValue), CFlatExp(gain, 2, Saturation)>>
CFlat == [g \in GainModes |-> CRamp(g)]
CK == [l \in Labels |-> MaxK]
CDisk == [files |-> CFiles, bias |-> CBias, dark |-> CDark, flat |-> CFlat, k |-> CK]

\* the directories the model is run on: the reference directory changed in
\* one part at a time
FilesInput(d) ==
    \E n \in 0..MaxFiles : \E fs \in [1..n -> SUBSET Conditions] :
        d = [CDisk EXCEPT !.files = fs]

HdrVars == {<<a, b>> : a \in VarValues, b \in {1, CVar}}
BiasVarExps ==
    {[gain |-> "hdr", var |-> vs, cds |-> <<(<<CArr>>), (<<CArr>>)>>] : vs \in HdrVars}
    \cup {[gain |-> g, var |-> <<a>>, cds |-> <<(<<CArr>>)>>] : g \in {"high", "low"}, a \in VarValues}
BiasVarInput(d) ==
    \E n \in 0..MaxBias : \E bs \in [1..n -> BiasVarExps] :
        d = [CDisk EXCEPT !.bias = bs]

BiasImgExps ==
    {[gain |-> "hdr", var |-> <<CVar, 1>>, cds |-> <<(<<a>>), (<<CArr>>)>>] : a \in Arrays}
    \cup {[gain |-> "hdr", var |-> <<CVar, 1>>, cds |-> <<(<<CArr>>), (<<a>>)>>] : a \in Arrays}
    \cup {[gain |-> "high", var |-> <<CVar>>, cds |-> <<(<<a>>)>>] : a \in Arrays}
    \cup {[gain |-> "low", var |-> <<CVar>>, cds |-> <<(<<a, CArr>>)>>] : a \in Arrays}
BiasImgInput(d) == \E e \in BiasImgExps : d = [CDisk EXCEPT !.bias = <<e>>]

\* a stack of NDarkFrames frames: the first four are b, the others a
StackOf(a, b) == [f \in 1..NDarkFrames |-> IF f <= 4 THEN b ELSE a]
DarkMissingInput(d) ==
    \E m \in Range(DarkModes) : d = [CDisk EXCEPT !.dark[m].missing = TRUE]
DarkStackInput(d) ==
    \E a \in Arrays :
        \/ \E b \in Arrays : d = [CDisk EXCEPT !.dark["FUVdark"].long_low = StackOf(a, b)]
        \/ \E b \in Arrays : d = [CDisk EXCEPT !.dark["FUVdark"].long_high = StackOf(a, b)]
        \/ d = [CDisk EXCEPT !.dark["FUVdark"].long_low = StackOf(a, a),
                             !.dark["FUVdark"].long_high = StackOf(a, a)]
        \/ d = [CDisk EXCEPT !.dark["FUVdark"].short_low = StackOf(a, a)]
        \/ \E m \in {"NUVdark", "NUVguidingdark"} :
               d = [CDisk EXCEPT !.dark[m].long_high = StackOf(a, a)]

\* ramps of the high gain mode that vary the exposure times and the median
\* signals of every exposure
RampExps ==
    {FlatExp("high", t, <<m>>, <<CVar>>, <<CArr>>) : t \in ExpTimes, m \in MedValues}
RampInput(d) ==
    \E n \in 0..MaxRamp : \E r \in [1..n -> RampExps] : d = [CDisk EXCEPT !.flat["high"] = r]
\* ramps of the other channels that vary the median signals, the exposure
\* times rising from 0 or from 1
RisingRampInput(d) ==
    \E gc \in {<<"hdr", 1>>, <<"hdr", 2>>, <<"low", 1>>} : \E t0 \in {0, 1} :
        \E n \in 0..MaxRamp : \E ms \in [1..n -> MedValues] :
            d = [CDisk EXCEPT !.flat[gc[1]] =
                    [i \in 1..n |->
                        FlatExp(gc[1], t0 + i - 1,
                                [c \in 1..NChan(gc[1]) |-> IF c = gc[2] THEN ms[i] ELSE MidValue],
                                [c \in 1..NChan(gc[1]) |-> CVar],
                                [c \in 1..NChan(gc[1]) |-> CArr])]]
\* ramps that vary the variances, and the frames of the two exposures
FlatVarInput(d) ==
    \E g \in GainModes : \E a \in VarValues : \E b \in VarValues :
        d = [CDisk EXCEPT !.flat[g][1].var = [c \in 1..NChan(g) |-> a],
                          !.flat[g][2].var = [c \in 1..NChan(g) |-> b]]
FlatImgInput(d) ==
    \E g \in GainModes : \E i \in 1..2 : \E ch \in 1..NChan(g) : \E a \in Arrays :
        d = [CDisk EXCEPT !.flat[g][i].cds = [c \in 1..NChan(g) |-> IF c = ch THEN a ELSE CArr]]
\* ramps of every length and order of exposure times in which every
\* exposure of one channel has a frame of its own
RampFrame(i) == [p \in 1..NPix |-> CArr[p] + i]
SatRampInput(d) ==
    \E g \in GainModes : \E ch \in 1..NChan(g) :
        \E n \in 1..MaxRamp : \E ts \in [1..n -> ExpTimes] :
            d = [CDisk EXCEPT !.flat[g] =
                    [i \in 1..n |->
                        FlatExp(g, ts[i],
                                [c \in 1..NChan(g) |-> MidValue],
                                [c \in 1..NChan(g) |-> CVar],
                                [c \in 1..NChan(g) |-> IF c = ch THEN RampFrame(i) ELSE CArr])]]
KInput(d) == \E ks \in [Labels -> KValues] : d = [CDisk EXCEPT !.k = ks]
EmptyLoadInput(d) ==
    \E fs \in {<<{"bias"}>>, <<{"bias"}, {"flat"}>>} :
        d = [CDisk EXCEPT !.files = fs, !.bias = <<>>]

Input(d) ==
    \/ FilesInput(d)
    \/ BiasVarInput(d)
    \/ BiasImgInput(d)
    \/ DarkMissingInput(d)
    \/ DarkStackInput(d)
    \/ RampInput(d)
    \/ RisingRampInput(d)
    \/ FlatVarInput(d)
    \/ FlatImgInput(d)
    \/ SatRampInput(d)
    \/ KInput(d)
    \/ EmptyLoadInput(d)

\* -------------------------------------------------------------- state
VARIABLES
    disk,            \* the directory: files, and what the loader returns per prefix
    pc,              \* position in standard_analysis_products
    result,          \* "running", the returned value, or the exception raised
    raised_at,       \* where the exception was raised
    pdf,             \* the report file: "none", "open" or "closed"
    pages,           \* pages saved to the report, in order
    bias_present, dark_present, flat_present,
    read_noise, det_gain, dark_current, well_depth,
    bias_frames, bf, bc,
    mode_i, frames, dj,
    gain_i, gain_label, sat_flats, mid_flats, mid_flat_times,
    exp_times, med_sig, var, max_exp, mid_exp_i,
    fi, linearity, pj, sig, v, noise_floor,
    writes           \* history: every store into the four dictionaries, in order

flagVars == <<bias_present, dark_present, flat_present>>
dictVars == <<read_noise, det_gain, dark_current, well_depth>>
biasVars == <<bias_frames, bf, bc>>
darkVars == <<mode_i, frames, dj>>
flatVars == <<gain_i, gain_label, sat_flats, mid_flats, mid_flat_times,
              exp_times, med_sig, var, max_exp, mid_exp_i>>
ptcVars == <<fi, linearity, pj, sig, v, noise_floor>>
vars == <<disk, pc, result, raised_at, pdf, pages, flagVars, dictVars, biasVars,
          darkVars, flatVars, ptcVars, writes>>

Empty == [x \in {} |-> 0]
Put(d, key, val) == [x \in DOMAIN d \cup {key} |-> IF x = key THEN val ELSE d[x]]
Page(sec, kind, of) == [sec |-> sec, kind |-> kind, of |-> of]
Write(sec, q, key, val, src) == [sec |-> sec, q |-> q, key |-> key, val |-> val, src |-> src]

\* mutant of ChannelLabels: both channels of an hdr exposure under one label
ChannelLabels_OneLabel(gain) == IF gain = "hdr" THEN <<HDH, HDH>> ELSE <<gain>>

\* mutant of ChannelLabels: the hdr channels under the single-gain labels
ChannelLabels_Clash(gain) == IF gain = "hdr" THEN <<"high", "low">> ELSE <<gain>>

\* lines 100-105, 258-259, 277: the channel labels of a gain mode
ChannelLabels(gain) == IF gain = "hdr" THEN <<HDH, HDL>> ELSE <<gain>>

\* mutant of Present: any file that names a condition counts for every condition
Present_AnyCondition(files, cond) == \E i \in DOMAIN files : files[i] # {}

\* 'bias' in f, for some file f of the listing
Present(files, cond) == \E i \in DOMAIN files : cond \in files[i]

\* mutant of DirectoryEmpty: the test never holds
DirectoryEmpty_Never(files) == Len(files) < 0

\* line 35: len(files) < 1
DirectoryEmpty(files) == Len(files) < 1

\* hist_page: data_range is the number of unit bins of the second histogram;
\* np.histogram raises ValueError when it is not positive
data_range(data) == ((SeqMax(data) + 1) \div 2) - (SeqMin(data) \div 2)
hist_page_ok(data) == data_range(data) >= 1

\* mutant of Raise: the exception is swallowed and the run goes on to the
\* summary
Raise_Swallowed(exc, where) ==
    /\ pc' = "summary"
    /\ UNCHANGED <<result, raised_at, pdf>>

\* an exception leaves the function; the with-block closes the report
Raise(exc, where) ==
    /\ pc' = "done"
    /\ result' = exc
    /\ raised_at' = where
    /\ pdf' = IF pdf = "open" THEN "closed" ELSE pdf

Init ==
    /\ Input(disk)
    /\ pc = "start"
    /\ result = "running"
    /\ raised_at = ""
    /\ pdf = "none"
    /\ pages = <<>>
    /\ bias_present = FALSE /\ dark_present = FALSE /\ flat_present = FALSE
    /\ read_noise = Empty /\ det_gain = Empty /\ dark_current = Empty /\ well_depth = Empty
    /\ bias_frames = <<>> /\ bf = 0 /\ bc = 0
    /\ mode_i = 0 /\ frames = <<>> /\ dj = 0
    /\ gain_i = 0 /\ gain_label = <<>> /\ sat_flats = <<>> /\ mid_flats = <<>>
    /\ mid_flat_times = <<>> /\ exp_times = <<>> /\ med_sig = <<>> /\ var = <<>>
    /\ max_exp = 0 /\ mid_exp_i = <<>>
    /\ fi = 0 /\ linearity = <<>> /\ pj = 0 /\ sig = <<>> /\ v = <<>> /\ noise_floor = 0
    /\ writes = <<>>

\* lines 33-53: list the directory, return False when it is empty, else scan
\* the file names for the three conditions
Start ==
    /\ pc = "start"
    /\ IF DirectoryEmpty(disk.files)
       THEN /\ pc' = "done"
            /\ result' = "False"
            /\ UNCHANGED flagVars
       ELSE /\ pc' = "title"
            /\ bias_present' = Present(disk.files, "bias")
            /\ dark_present' = Present(disk.files, "dark")
            /\ flat_present' = Present(disk.files, "flat")
            /\ UNCHANGED result
    /\ UNCHANGED <<disk, raised_at, pdf, pages, dictVars, biasVars, darkVars, flatVars,
                   ptcVars, writes>>

\* lines 56-89: open the report, save the title page, create the dictionaries
TitlePage ==
    /\ pc = "title"
    /\ pdf' = "open"
    /\ pages' = Append(pages, Page("title", "summary", ""))
    /\ read_noise' = Empty /\ det_gain' = Empty /\ dark_current' = Empty /\ well_depth' = Empty
    /\ pc' = "bias"
    /\ UNCHANGED <<disk, result, raised_at, flagVars, biasVars, darkVars, flatVars,
                   ptcVars, writes>>

\* lines 95-96: load the bias exposures when the condition is present
Bias ==
    /\ pc = "bias"
    /\ IF bias_present
       THEN /\ bias_frames' = disk.bias
            /\ bf' = 1 /\ bc' = 1
            /\ pc' = IF Len(disk.bias) = 0 THEN "dark" ELSE "bias_loop"
       ELSE /\ pc' = "dark"
            /\ UNCHANGED biasVars
    /\ UNCHANGED <<disk, result, raised_at, pdf, pages, flagVars, dictVars, darkVars,
                   flatVars, ptcVars, writes>>

\* lines 98-124: one channel of one bias exposure: record its read noise and
\* save its histogram page
BiasChannel ==
    /\ pc = "bias_loop"
    /\ LET bifr == bias_frames[bf]
           gain == ChannelLabels(bifr.gain)
           med_frames == [c \in DOMAIN gain |-> MedianFrame(bifr.cds[c])]
           med_bias == med_frames[bc]
           rn == Sqrt(bifr.var[bc])
       IN  /\ read_noise' = Put(read_noise, gain[bc], rn)
           /\ writes' = Append(writes, Write("bias", "read_noise", gain[bc], rn, bf))
           /\ IF hist_page_ok(med_bias)
              THEN /\ pages' = Append(pages, Page("bias", "hist", gain[bc]))
                   /\ IF bc < Len(gain)
                      THEN bc' = bc + 1 /\ UNCHANGED <<bf, pc>>
                      ELSE /\ bc' = 1
                           /\ bf' = bf + 1
                           /\ pc' = IF bf < Len(bias_frames) THEN "bias_loop" ELSE "dark"
                   /\ UNCHANGED <<result, raised_at, pdf>>
              ELSE /\ Raise("ValueError", "hist_page")
                   /\ UNCHANGED <<pages, bf, bc>>
    /\ UNCHANGED <<disk, flagVars, det_gain, dark_current, well_depth, bias_frames,
                   darkVars, flatVars, ptcVars>>

\* mutant of times: every mode with the durations of the NUV modes
times_AllNUV(mode) == <<NUVShort, NUVShort, NUVLong, NUVLong>>

\* lines 131-136, 182: the exposure durations of the four frames of a mode
times(mode) ==
    LET long == IF mode = "FUVdark" THEN FUVLong ELSE NUVLong
        short == IF mode = "FUVdark" THEN FUVShort ELSE NUVShort
    IN  <<short, short, long, long>>

\* line 129: enter the dark section when the condition is present
Dark ==
    /\ pc = "dark"
    /\ IF dark_present
       THEN mode_i' = 1 /\ pc' = "dark_load"
       ELSE pc' = "flat" /\ UNCHANGED mode_i
    /\ UNCHANGED <<disk, result, raised_at, pdf, pages, flagVars, dictVars, biasVars,
                   frames, dj, flatVars, ptcVars, writes>>

\* lines 130-182: load the nine long and nine short exposures of a mode (the
\* first element of an empty load raises IndexError) and reduce the four
\* stacks to their median frames
DarkLoad ==
    /\ pc = "dark_load"
    /\ LET d == disk.dark[DarkModes[mode_i]]
       IN  IF d.missing
           THEN /\ Raise("IndexError", "load_by_file_prefix")
                /\ UNCHANGED <<frames, dj>>
           ELSE /\ frames' = <<MedianFrame(d.short_low), MedianFrame(d.short_high),
                               MedianFrame(d.long_low), MedianFrame(d.long_high)>>
                /\ dj' = 1
                /\ pc' = "dark_page"
                /\ UNCHANGED <<result, raised_at, pdf>>
    /\ UNCHANGED <<disk, pages, flagVars, dictVars, biasVars, mode_i, flatVars, ptcVars,
                   writes>>

\* lines 190-191: the dictionary key a dark frame is recorded under, if any
DarkKey(mode, name) ==
    IF mode = "FUVdark" /\ name = "long low-gain" THEN HDL
    ELSE IF mode = "FUVdark" /\ name = "long high-gain" THEN HDH
    ELSE ""

\* lines 184-194: one median frame of a mode: record the dark current of the
\* two long FUVdark frames, save the histogram page
DarkPage ==
    /\ pc = "dark_page"
    /\ LET mode == DarkModes[mode_i]
           med_dark == frames[dj]
           mmedian == ImageMedian(med_dark)
           key == DarkKey(mode, DarkNames[dj])
           dc == Rat(mmedian.num, mmedian.den * times(mode)[dj])
       IN  /\ IF key # ""
              THEN /\ dark_current' = Put(dark_current, key, dc)
                   /\ writes' = Append(writes, Write("dark", "dark_current", key, dc, mode_i))
              ELSE UNCHANGED <<dark_current, writes>>
           /\ IF hist_page_ok(med_dark)
              THEN /\ pages' = Append(pages, Page("dark", "hist", mode))
                   /\ IF dj < Len(frames)
                      THEN dj' = dj + 1 /\ UNCHANGED pc
                      ELSE dj' = dj /\ pc' = "dark_ts"
                   /\ UNCHANGED <<result, raised_at, pdf>>
              ELSE /\ Raise("ValueError", "hist_page")
                   /\ UNCHANGED <<pages, dj>>
    /\ UNCHANGED <<disk, flagVars, read_noise, det_gain, well_depth, biasVars, mode_i,
                   frames, flatVars, ptcVars>>

\* lines 196-248: the page of mean values over time, then the next mode
DarkTimeSeries ==
    /\ pc = "dark_ts"
    /\ pages' = Append(pages, Page("dark", "time", DarkModes[mode_i]))
    /\ IF mode_i < Len(DarkModes)
       THEN mode_i' = mode_i + 1 /\ pc' = "dark_load"
       ELSE pc' = "flat" /\ UNCHANGED mode_i
    /\ UNCHANGED <<disk, result, raised_at, pdf, flagVars, dictVars, biasVars, frames, dj,
                   flatVars, ptcVars, writes>>

\* lines 250-252: enter the flat section when the condition is present
Flat ==
    /\ pc = "flat"
    /\ IF flat_present
       THEN /\ gain_label' = <<>> /\ sat_flats' = <<>> /\ mid_flats' = <<>>
            /\ mid_flat_times' = <<>> /\ exp_times' = <<>> /\ med_sig' = <<>> /\ var' = <<>>
            /\ gain_i' = 1
            /\ pc' = "flat_load"
       ELSE /\ pc' = "summary"
            /\ UNCHANGED <<gain_i, gain_label, sat_flats, mid_flats, mid_flat_times,
                           exp_times, med_sig, var>>
    /\ UNCHANGED <<disk, result, raised_at, pdf, pages, flagVars, dictVars, biasVars,
                   darkVars, max_exp, mid_exp_i, ptcVars, writes>>

\* mutant of MidMask: the lower bound included
MidMask_Inclusive(medians) ==
    [i \in DOMAIN medians |-> medians[i] >= MidLow /\ medians[i] < Saturation]

\* lines 270-271, 287: the mask of the mid-range exposures
MidMask(medians) == [i \in DOMAIN medians |-> medians[i] > MidLow /\ medians[i] < Saturation]

\* lines 253-289: one gain mode of the flat ramp: the exposure times, the
\* longest exposure, the medians and variances of every exposure and the first
\* mid-range exposure of each channel.  max() of an empty load raises
\* ValueError; np.where(...)[0][0] with no mid-range exposure raises IndexError
\* after the ramp has been appended to the lists.
FlatLoad ==
    /\ pc = "flat_load"
    /\ LET gain == FlatGains[gain_i]
           flat_frames == disk.flat[gain]
           exp == [i \in DOMAIN flat_frames |-> flat_frames[i].exp_time]
           labels == ChannelLabels(gain)
           nch == Len(labels)
           max_i == ArgMax(exp)
           medians == [c \in 1..nch |-> [i \in DOMAIN flat_frames |-> flat_frames[i].med[c]]]
           variance == [c \in 1..nch |-> [i \in DOMAIN flat_frames |-> flat_frames[i].var[c]]]
           mids == [c \in 1..nch |-> Where(MidMask(medians[c]))]
           failing == {c \in 1..nch : mids[c] = <<>>}
       IN  IF flat_frames = <<>>
           THEN /\ Raise("ValueError", "max")
                /\ UNCHANGED flatVars
           ELSE /\ max_exp' = SeqMax(exp)
                /\ gain_label' = gain_label \o labels
                /\ sat_flats' = sat_flats \o [c \in 1..nch |-> Image(flat_frames[max_i].cds[c])]
                /\ exp_times' = exp_times \o [c \in 1..nch |-> exp]
                /\ med_sig' = med_sig \o medians
                /\ var' = var \o variance
                /\ IF failing # {}
                   THEN /\ Raise("IndexError", labels[CHOOSE c \in failing : \A d \in failing : c <= d])
                        /\ UNCHANGED <<gain_i, mid_flats, mid_flat_times, mid_exp_i>>
                   ELSE /\ mid_exp_i' = mid_exp_i \o [c \in 1..nch |-> mids[c][1]]
                        /\ mid_flat_times' = mid_flat_times \o [c \in 1..nch |-> exp[mids[c][1]]]
                        /\ mid_flats' = mid_flats
                               \o [c \in 1..nch |-> Image(flat_frames[mids[c][1]].cds[c])]
                        /\ IF gain_i < Len(FlatGains)
                           THEN gain_i' = gain_i + 1 /\ UNCHANGED pc
                           ELSE gain_i' = gain_i /\ pc' = "mid_pages"
                        /\ UNCHANGED <<result, raised_at, pdf>>
    /\ fi' = 1
    /\ UNCHANGED <<disk, pages, flagVars, dictVars, biasVars, darkVars, linearity, pj, sig,
                   v, noise_floor, writes>>

\* lines 292-301: the histogram page of one mid-range flat
MidPage ==
    /\ pc = "mid_pages"
    /\ LET flat == mid_flats[fi]
       IN  IF hist_page_ok(flat)
           THEN /\ pages' = Append(pages, Page("flat", "mid", gain_label[fi]))
                /\ IF fi < Len(mid_flats)
                   THEN fi' = fi + 1 /\ UNCHANGED pc
                   ELSE fi' = 1 /\ pc' = "well_pages"
                /\ UNCHANGED <<result, raised_at, pdf>>
           ELSE /\ Raise("ValueError", "hist_page")
                /\ UNCHANGED <<pages, fi>>
    /\ UNCHANGED <<disk, flagVars, dictVars, biasVars, darkVars, flatVars, linearity, pj,
                   sig, v, noise_floor, writes>>

\* lines 304-317: one saturated flat: record the well depth, save the page
WellPage ==
    /\ pc = "well_pages"
    /\ LET flat == sat_flats[fi]
           smedian == ImageMedian(flat)
       IN  /\ well_depth' = Put(well_depth, gain_label[fi], smedian)
           /\ writes' = Append(writes, Write("flat", "well_depth", gain_label[fi], smedian, fi))
           /\ IF hist_page_ok(flat)
              THEN /\ pages' = Append(pages, Page("flat", "well", gain_label[fi]))
                   /\ IF fi < Len(sat_flats)
                      THEN fi' = fi + 1 /\ UNCHANGED pc
                      ELSE fi' = fi /\ pc' = "linearity"
                   /\ UNCHANGED <<result, raised_at, pdf>>
              ELSE /\ Raise("ValueError", "hist_page")
                   /\ UNCHANGED <<pages, fi>>
    /\ UNCHANGED <<disk, flagVars, read_noise, det_gain, dark_current, biasVars, darkVars,
                   flatVars, linearity, pj, sig, v, noise_floor>>

\* lines 320-338: the linearity curve plots, per channel, the exposures with a
\* positive exposure time
Linearity ==
    /\ pc = "linearity"
    /\ linearity' = [j \in 1..NChannels |->
                        LET positive == [i \in DOMAIN exp_times[j] |-> exp_times[j][i] > 0]
                        IN  [x |-> Select(exp_times[j], positive),
                             y |-> Select(med_sig[j], positive)]]
    /\ pj' = 1
    /\ pc' = "ptc"
    /\ UNCHANGED <<disk, result, raised_at, pdf, pages, flagVars, dictVars, biasVars,
                   darkVars, flatVars, fi, sig, v, noise_floor, writes>>

\* line 341: the mask of the unsaturated exposures
Unsaturated(medians) == [i \in DOMAIN medians |-> medians[i] < Saturation]

\* lines 344-347: the gain 5000 / model_fit(5000) of the fitted power law
FitGain(label, s, w) == disk.k[label]

\* line 350: the read noise in electrons
ConvertReadNoise(rn, k) == Sqrt(rn) * k

\* lines 349-354: the stores of the conversion of one channel, in order
Conversions(label, k, j) ==
    (IF label \in DOMAIN read_noise
     THEN <<Write("ptc", "read_noise", label, ConvertReadNoise(read_noise[label], k), j)>>
     ELSE <<>>)
    \o (IF label \in DOMAIN dark_current
        THEN <<Write("ptc", "dark_current", label, RatMul(dark_current[label], k), j)>>
        ELSE <<>>)
    \o (IF label \in DOMAIN well_depth
        THEN <<Write("ptc", "well_depth", label, RatMul(well_depth[label], k), j)>>
        ELSE <<>>)

\* lines 339-359: one channel of the photon transfer curve: fit the
\* unsaturated samples above the noise floor, record the gain, convert the
\* values already recorded for the channel
PTCFit ==
    /\ pc = "ptc"
    /\ LET label == gain_label[pj]
           unsaturated == Unsaturated(med_sig[pj])
           s == Select(med_sig[pj], unsaturated)
           w == Select(var[pj], unsaturated)
           k == FitGain(label, s, w)
       IN  /\ sig' = s
           /\ v' = w
           /\ IF w = <<>>
              THEN /\ Raise("ValueError", "min")
                   /\ UNCHANGED <<dictVars, pj, noise_floor, writes>>
              ELSE /\ noise_floor' = SeqMin(w)
                   /\ det_gain' = Put(det_gain, label, k)
                   /\ read_noise' = IF label \in DOMAIN read_noise
                                    THEN Put(read_noise, label, ConvertReadNoise(read_noise[label], k))
                                    ELSE read_noise
                   /\ dark_current' = IF label \in DOMAIN dark_current
                                      THEN Put(dark_current, label, RatMul(dark_current[label], k))
                                      ELSE dark_current
                   /\ well_depth' = IF label \in DOMAIN well_depth
                                    THEN Put(well_depth, label, RatMul(well_depth[label], k))
                                    ELSE well_depth
                   /\ writes' = writes \o <<Write("ptc", "det_gain", label, k, pj)>>
                                       \o Conversions(label, k, pj)
                   /\ IF pj < NChannels
                      THEN pj' = pj + 1 /\ UNCHANGED pc
                      ELSE pj' = pj /\ pc' = "ptc_page"
                   /\ UNCHANGED <<result, raised_at, pdf>>
    /\ UNCHANGED <<disk, pages, flagVars, biasVars, darkVars, flatVars, fi, linearity>>

\* lines 360-368: save the page of the linearity and photon transfer curves
PTCPage ==
    /\ pc = "ptc_page"
    /\ pages' = Append(pages, Page("flat", "ptc", ""))
    /\ pc' = "summary"
    /\ UNCHANGED <<disk, result, raised_at, pdf, flagVars, dictVars, biasVars, darkVars,
                   flatVars, ptcVars, writes>>

\* mutant of SummaryDue: the table whenever the flat section ran
SummaryDue_FlatOnly == flat_present

\* line 372: the three conditions were present
SummaryDue == bias_present /\ dark_present /\ flat_present

\* lines 372-402: the summary table when the three conditions were present;
\* the with-block closes the report and the function returns None
Summary ==
    /\ pc = "summary"
    /\ pages' = IF SummaryDue
                THEN Append(pages, Page("summary", "table", ""))
                ELSE pages
    /\ pdf' = "closed"
    /\ result' = "None"
    /\ pc' = "done"
    /\ UNCHANGED <<disk, raised_at, flagVars, dictVars, biasVars, darkVars, flatVars,
                   ptcVars, writes>>

Next ==
    \/ Start
    \/ TitlePage
    \/ Bias
    \/ BiasChannel
    \/ Dark
    \/ DarkLoad
    \/ DarkPage
    \/ DarkTimeSeries
    \/ Flat
    \/ FlatLoad
    \/ MidPage
    \/ WellPage
    \/ Linearity
    \/ PTCFit
    \/ PTCPage
    \/ Summary

Spec == Init /\ [][Next]_vars

\* ------------------------------------------------------------- claims
\* the stores of a section into a dictionary, as indices of the history
Stores(sec, q) == {i \in DOMAIN writes : writes[i].sec = sec /\ writes[i].q = q}
StoresOf(sec, q, key) == {i \in Stores(sec, q) : writes[i].key = key}
Last(S) == CHOOSE i \in S : \A j \in S : j <= i
Finished == pc = "done" /\ result = "None"
Failed == pc = "done" /\ result \notin {"None", "False"}
FlatDone == flat_present /\ (pc \in {"ptc_page", "summary"} \/ Finished)
QuantitiesADU == {"read_noise", "dark_current", "well_depth"}

\* C1: the PTC loop rewrites each of read_noise[g], dark_current[g] and
\* well_depth[g] at most once, so no stored value is multiplied by a gain
\* twice: once the flat section is through, dark_current[g] and well_depth[g]
\* are the value recorded in ADU times the gain of g, one time.
C1_ConvertedOnce ==
    /\ \A q \in QuantitiesADU : \A g \in Labels : Cardinality(StoresOf("ptc", q, g)) <= 1
    /\ FlatDone =>
          /\ \A g \in DOMAIN well_depth :
                 LET adu == writes[Last(StoresOf("flat", "well_depth", g))].val
                 IN  RatEq(well_depth[g], Rat(adu.num * det_gain[g], adu.den))
          /\ \A g \in DOMAIN dark_current :
                 LET adu == writes[Last(StoresOf("dark", "dark_current", g))].val
                 IN  RatEq(dark_current[g], Rat(adu.num * det_gain[g], adu.den))

\* C1 witness: a finished run in which two bias exposures produced the same
\* label, and that label's read noise was converted with a gain above 1
C1_Witness ==
    /\ Finished
    /\ \E g \in Labels :
          /\ Cardinality(StoresOf("bias", "read_noise", g)) >= 2
          /\ Cardinality(StoresOf("ptc", "read_noise", g)) = 1
          /\ g \in DOMAIN det_gain /\ det_gain[g] > 1

\* C2: once the flat section is through, read_noise[g] is the read noise the
\* bias section recorded in ADU multiplied by the gain of g.
C2_ReadNoiseTimesGain ==
    FlatDone =>
        \A g \in DOMAIN read_noise \cap DOMAIN det_gain :
            read_noise[g] = writes[Last(StoresOf("bias", "read_noise", g))].val * det_gain[g]

\* the labels an exposure of a gain mode is recorded under
LabelsOf(gain) == IF gain = "hdr" THEN {HDH, HDL} ELSE {gain}
BiasProcessed == IF pc = "bias_loop" THEN 1..(bf - 1)
                 ELSE IF pc \in {"start", "title", "bias"} \/ Failed THEN {}
                 ELSE DOMAIN bias_frames
KeysInOrder(sec, q) ==
    LET w == Where([i \in DOMAIN writes |-> writes[i].sec = sec /\ writes[i].q = q])
    IN  [n \in DOMAIN w |-> writes[w[n]].key]

\* C3: an hdr exposure is recorded under exactly the keys "high (dual-gain)"
\* and "low (dual-gain)", an exposure of another mode under exactly its mode
\* name: every bias exposure that has been processed stored read_noise once
\* per such key and under no other; the flat section stores well_depth and
\* det_gain under the two hdr keys, then "high", then "low"; no other key is
\* ever stored in read_noise, well_depth or det_gain.
C3_ChannelExpansion ==
    /\ \A i \in DOMAIN writes :
           writes[i].q \in {"read_noise", "well_depth", "det_gain"}
               => writes[i].key \in {HDH, HDL, "high", "low"}
    /\ DOMAIN read_noise \cup DOMAIN well_depth \cup DOMAIN det_gain \subseteq {HDH, HDL, "high", "low"}
    /\ \A f \in BiasProcessed :
           LET mine == {i \in Stores("bias", "read_noise") : writes[i].src = f}
           IN  /\ {writes[i].key : i \in mine} = LabelsOf(bias_frames[f].gain)
               /\ Cardinality(mine) = Cardinality(LabelsOf(bias_frames[f].gain))
    /\ FlatDone =>
          /\ KeysInOrder("flat", "well_depth") = <<HDH, HDL, "high", "low">>
          /\ KeysInOrder("ptc", "det_gain") = <<HDH, HDL, "high", "low">>

\* C3 witness: a finished run whose bias exposures include an hdr one and a
\* single-gain one, with the flat section through
C3_Witness ==
    /\ Finished /\ flat_present
    /\ \E f \in DOMAIN bias_frames : bias_frames[f].gain = "hdr"
    /\ \E f \in DOMAIN bias_frames : bias_frames[f].gain # "hdr"
    /\ Cardinality(Stores("bias", "read_noise")) >= 3

NoCondition == \A i \in DOMAIN disk.files : disk.files[i] = {}

\* C4: with an empty directory the run returns False with no report opened,
\* no page saved and nothing recorded, and only then; a run on a directory
\* that has files but none of bias, dark or flat opens the report, saves
\* the title page alone and returns None.
C4_EmptyDirectory ==
    /\ (Len(disk.files) = 0 /\ pc # "start") =>
           /\ pc = "done" /\ result = "False"
           /\ pdf = "none" /\ pages = <<>> /\ writes = <<>>
           /\ DOMAIN read_noise \cup DOMAIN det_gain \cup DOMAIN dark_current \cup DOMAIN well_depth = {}
    /\ result = "False" => Len(disk.files) = 0
    /\ (Len(disk.files) > 0 /\ NoCondition /\ pc = "done") =>
           /\ result = "None"
           /\ pdf = "closed"
           /\ pages = <<Page("title", "summary", "")>>
           /\ writes = <<>>

\* C4 witness: the run on the empty directory has returned
C4_Witness == Len(disk.files) = 0 /\ pc = "done" /\ result = "False"

HasFile(cond) == \E i \in DOMAIN disk.files : cond \in disk.files[i]
PagesOf(sec) == {i \in DOMAIN pages : pages[i].sec = sec}
BiasChannels == {<<f, c>> : f \in DOMAIN disk.bias, c \in 1..2} \cap
                {fc \in (DOMAIN disk.bias) \X (1..2) : fc[2] \in DOMAIN disk.bias[fc[1]].cds}
StrictMid(m) == m > 5000 /\ m < 15000
\* the inputs of a section let it run to its end: every file it loads is
\* there, every ramp has a mid-range exposure, every image has a pixel range
BiasSound == \A fc \in BiasChannels : hist_page_ok(MedianFrame(disk.bias[fc[1]].cds[fc[2]]))
DarkSound ==
    \A m \in Range(DarkModes) :
        LET d == disk.dark[m]
        IN  /\ ~d.missing
            /\ \A st \in {d.short_low, d.short_high, d.long_low, d.long_high} :
                   hist_page_ok(MedianFrame(st))
FlatSound ==
    \A g \in GainModes :
        /\ disk.flat[g] # <<>>
        /\ \A c \in 1..NChan(g) :
               /\ \E i \in DOMAIN disk.flat[g] : StrictMid(disk.flat[g][i].med[c])
               /\ \A i \in DOMAIN disk.flat[g] : hist_page_ok(Image(disk.flat[g][i].cds[c]))
Sound(cond) == IF cond = "bias" THEN BiasSound ELSE IF cond = "dark" THEN DarkSound ELSE FlatSound
PageCount(cond) ==
    IF cond = "bias" THEN Cardinality(BiasChannels)
    ELSE IF cond = "dark" THEN 15 ELSE 9

\* C5: a condition with no file is skipped and is no error: the run saves no
\* page of its section and records nothing only that section records (bias:
\* read_noise; dark: dark_current; flat: well_depth, det_gain and no
\* conversion), and when the inputs of the conditions that are present are
\* sound the run returns None with every page of their sections saved.
C5_MissingConditionSkipped ==
    /\ ~HasFile("bias") => PagesOf("bias") = {} /\ DOMAIN read_noise = {}
    /\ ~HasFile("dark") => PagesOf("dark") = {} /\ DOMAIN dark_current = {}
    /\ ~HasFile("flat") =>
           /\ PagesOf("flat") = {}
           /\ DOMAIN well_depth = {} /\ DOMAIN det_gain = {}
           /\ \A i \in DOMAIN writes : writes[i].sec # "ptc"
    /\ (pc = "done" /\ Len(disk.files) > 0 /\ \A c \in Conditions : HasFile(c) => Sound(c)) =>
           /\ result = "None"
           /\ \A c \in Conditions :
                  Cardinality(PagesOf(c)) = IF HasFile(c) THEN PageCount(c) ELSE 0

\* C5 witness: a finished run with no bias file and with dark and flat files
C5_Witness ==
    /\ Finished
    /\ ~HasFile("bias") /\ HasFile("dark") /\ HasFile("flat")
    /\ PagesOf("dark") # {} /\ PagesOf("flat") # {} /\ DOMAIN det_gain # {}

\* C6: the mid-range exposure of a channel is the first exposure of the ramp
\* whose median signal m has 5000 < m < 15000: its signal is neither 5000 nor
\* 15000, and no exposure before it in the ramp is in that range.
C6_MidRangeFirst ==
    \A c \in DOMAIN mid_exp_i :
        LET m == med_sig[c]
            i == mid_exp_i[c]
        IN  /\ i \in DOMAIN m
            /\ m[i] > 5000 /\ m[i] < 15000
            /\ \A j \in 1..(i - 1) : ~(m[j] > 5000 /\ m[j] < 15000)
            /\ mid_flat_times[c] = exp_times[c][i]

\* C6 witness: a channel whose first exposure has a median signal of exactly
\* 5000 and whose second exposure was chosen
C6_Witness ==
    \E c \in DOMAIN mid_exp_i : mid_exp_i[c] = 2 /\ med_sig[c][1] = 5000

ChannelOrder == <<(<<"hdr", 1>>), (<<"hdr", 2>>), (<<"high", 1>>), (<<"low", 1>>)>>
ChannelLabel == <<HDH, HDL, "high", "low">>
NoMidRange(n) ==
    LET ramp == disk.flat[ChannelOrder[n][1]]
    IN  \A i \in DOMAIN ramp : ~StrictMid(ramp[i].med[ChannelOrder[n][2]])
NothingFromFlat ==
    /\ DOMAIN well_depth = {} /\ DOMAIN det_gain = {}
    /\ \A i \in DOMAIN writes : writes[i].sec \notin {"flat", "ptc"}
    /\ PagesOf("flat") = {} /\ PagesOf("summary") = {}

\* C7: a channel of the flat ramp with no exposure strictly between 5000 and
\* 15000 is a hard failure: the run never gets past the loading of the ramps,
\* it ends with an error, raised at the first such channel when the ramps up
\* to it were loaded, and no well_depth or det_gain is recorded, no
\* conversion applied, no flat page and no summary table saved.
C7_DataInsufficiency ==
    /\ (flat_present /\ \E n \in 1..4 : NoMidRange(n)) =>
           /\ pc \notin {"mid_pages", "well_pages", "linearity", "ptc", "ptc_page", "summary"}
           /\ pc = "done" => Failed
           /\ NothingFromFlat
    /\ (result = "IndexError" /\ raised_at \in Labels) =>
           /\ pc = "done"
           /\ \E n \in 1..4 :
                  /\ raised_at = ChannelLabel[n]
                  /\ NoMidRange(n)
                  /\ \A k \in 1..(n - 1) : ~NoMidRange(k)
           /\ NothingFromFlat

\* C7 witness: the run has failed at the low channel of the hdr ramp, after
\* the pages of the earlier sections
C7_Witness ==
    /\ pc = "done" /\ result = "IndexError" /\ raised_at = HDL
    /\ ~NoMidRange(1) /\ NoMidRange(2)
    /\ Len(pages) > 1

\* C8: the samples passed to the fit of a channel, and of which the noise
\* floor is the least variance, are exactly the samples of the ramp with
\* exposure_time > 0 and median_signal < 15000.
C8_FitSetPositiveUnsaturated ==
    ((pc = "ptc" /\ pj > 1) \/ pc = "ptc_page") =>
        LET j == IF pc = "ptc" THEN pj - 1 ELSE pj
            keep == [i \in DOMAIN med_sig[j] |-> exp_times[j][i] > 0 /\ med_sig[j][i] < 15000]
        IN  /\ sig = Select(med_sig[j], keep)
            /\ v = Select(var[j], keep)

\* the k-th smallest element of a list, and twice its median, by counting
Kth(s, k) ==
    CHOOSE x \in Range(s) :
        /\ Cardinality({i \in DOMAIN s : s[i] < x}) < k
        /\ k <= Cardinality({i \in DOMAIN s : s[i] <= x})
Med2(s) == Kth(s, (Len(s) + 1) \div 2) + Kth(s, Len(s) \div 2 + 1)
\* median of the pixel-wise median frame of a stack, over 900 s
ExpectedDark(stack) ==
    LET pm == [p \in DOMAIN stack[1] |-> Med2([f \in DOMAIN stack |-> stack[f][p]])]
    IN  Rat(Med2(pm), 4 * 900)
LongStack(key) ==
    IF key = HDL THEN disk.dark["FUVdark"].long_low ELSE disk.dark["FUVdark"].long_high
AllPixels(stack, val) == \A f \in DOMAIN stack : \A p \in DOMAIN stack[f] : stack[f][p] = val
FUVHistPages == {i \in DOMAIN pages : pages[i] = Page("dark", "hist", "FUVdark")}

\* C9: of the three dark modes only FUVdark stores into dark_current, under
\* the keys "high (dual-gain)" and "low (dual-gain)" and no other (both, once
\* its four pages are saved); the value stored is the median of the
\* pixel-wise median frame of the channel's long exposures over 900 s, which
\* is V/900 when every pixel of the nine exposures is V; until the conversion
\* dark_current holds that value.
C9_DarkCurrentFUVOnly ==
    /\ \A i \in Stores("dark", "dark_current") :
           /\ DarkModes[writes[i].src] = "FUVdark"
           /\ writes[i].key \in {HDH, HDL}
           /\ RatEq(writes[i].val, ExpectedDark(LongStack(writes[i].key)))
           /\ \A val \in PixVals :
                  AllPixels(LongStack(writes[i].key), val) => RatEq(writes[i].val, Rat(val, 900))
    /\ \A i \in DOMAIN writes : writes[i].q = "dark_current" => writes[i].sec \in {"dark", "ptc"}
    /\ DOMAIN dark_current \subseteq {HDH, HDL}
    /\ Cardinality(Stores("dark", "dark_current")) <= 2
    /\ Cardinality(FUVHistPages) = 4 =>
           /\ DOMAIN dark_current = {HDH, HDL}
           /\ Cardinality(Stores("dark", "dark_current")) = 2
    /\ \A g \in DOMAIN dark_current :
           StoresOf("ptc", "dark_current", g) = {} =>
               dark_current[g] = writes[Last(StoresOf("dark", "dark_current", g))].val

\* C9 witness: both keys are stored, and the nine long high-gain exposures
\* have every pixel equal to a value V, stored as V/900
C9_Witness ==
    /\ DOMAIN dark_current = {HDH, HDL}
    /\ Stores("ptc", "dark_current") = {}
    /\ \E val \in PixVals :
           /\ AllPixels(disk.dark["FUVdark"].long_high, val)
           /\ RatEq(dark_current[HDH], Rat(val, 900))

RECURSIVE BiasPagesFrom(_)
BiasPagesFrom(f) ==
    IF f > Len(disk.bias) THEN <<>>
    ELSE (IF disk.bias[f].gain = "hdr"
          THEN <<Page("bias", "hist", HDH), Page("bias", "hist", HDL)>>
          ELSE <<Page("bias", "hist", disk.bias[f].gain)>>) \o BiasPagesFrom(f + 1)
DarkPagesOf(mode) ==
    <<Page("dark", "hist", mode), Page("dark", "hist", mode), Page("dark", "hist", mode),
      Page("dark", "hist", mode), Page("dark", "time", mode)>>
FlatPagesAll ==
    [n \in 1..4 |-> Page("flat", "mid", ChannelLabel[n])]
    \o [n \in 1..4 |-> Page("flat", "well", ChannelLabel[n])]
    \o <<Page("flat", "ptc", "")>>
AllPresent == HasFile("bias") /\ HasFile("dark") /\ HasFile("flat")
\* the report of a run that meets no error
FullReport ==
    <<Page("title", "summary", "")>>
    \o (IF HasFile("bias") THEN BiasPagesFrom(1) ELSE <<>>)
    \o (IF HasFile("dark")
        THEN DarkPagesOf("FUVdark") \o DarkPagesOf("NUVdark") \o DarkPagesOf("NUVguidingdark")
        ELSE <<>>)
    \o (IF HasFile("flat") THEN FlatPagesAll ELSE <<>>)
    \o (IF AllPresent THEN <<Page("summary", "table", "")>> ELSE <<>>)
IsPrefix(p, q) == Len(p) <= Len(q) /\ \A i \in DOMAIN p : p[i] = q[i]
PageOrder == IsPrefix(pages, FullReport)

\* C10 as stated: the pages are saved in the order title, bias, dark (per
\* mode four histograms then the time series), flat (mid-range, well depth,
\* one linearity and PTC page), summary table, and in every run that opened
\* the report the table is saved if and only if the three conditions were
\* present.  (Stated of the runs in which hist_page did not raise: a load
\* that finds no file, or a ramp with no mid-range exposure, refutes it.)
C10_SummaryIffAllPresent ==
    /\ PageOrder
    /\ (pc = "done" /\ pdf # "none" /\ raised_at # "hist_page") =>
           (PagesOf("summary") # {} <=> AllPresent)

\* C10 amended: the pages are saved in that order in every run, and the
\* summary table is saved, as the last page, if and only if the three
\* conditions were present and the run met no error; a run that meets no
\* error saves the whole report.
C10_PageOrder ==
    /\ PageOrder
    /\ (pc = "done" /\ pdf # "none") =>
           (PagesOf("summary") # {} <=> (AllPresent /\ result = "None"))
    /\ PagesOf("summary") # {} => PagesOf("summary") = {Len(pages)}
    /\ Finished => pages = FullReport

\* C10 witness: a finished run with the three conditions, whose last page is
\* the summary table after bias, dark and flat pages
C10_Witness ==
    /\ Finished /\ AllPresent
    /\ pages[Len(pages)].sec = "summary"
    /\ PagesOf("bias") # {} /\ Cardinality(PagesOf("dark")) = 15 /\ Cardinality(PagesOf("flat")) = 9

\* the stores of ADU values: read_noise by the bias section, dark_current by
\* the dark section
ADUStores == Stores("bias", "read_noise") \cup Stores("dark", "dark_current")
ConversionStores == {i \in DOMAIN writes : writes[i].sec = "ptc"}
StoresInto(q, key) == {i \in DOMAIN writes : writes[i].q = q /\ writes[i].key = key}
Dict(q) == IF q = "read_noise" THEN read_noise ELSE dark_current

\* C11, the order alone: every store of the PTC loop comes after every store
\* of read_noise by the bias section and of dark_current by the dark section,
\* and once the flat section is through, every read_noise and dark_current
\* entry whose label has a gain holds what that label's conversion stored.
C11_ConversionAfterWrites ==
    /\ \A i \in ConversionStores : \A j \in ADUStores : j < i
    /\ ConversionStores # {} => pc \notin {"start", "title", "bias", "bias_loop", "dark", "dark_load", "dark_page", "dark_ts"}
    /\ FlatDone =>
          \A q \in {"read_noise", "dark_current"} : \A g \in DOMAIN Dict(q) \cap DOMAIN det_gain :
              LET last == Last(StoresInto(q, g))
              IN  writes[last].sec = "ptc" /\ writes[last].val = Dict(q)[g]

\* C11 witness: a finished run in which the bias section stored a read noise
\* and the dark section a dark current for a label, and the PTC loop then
\* converted both with a gain above 1
C11_Witness ==
    /\ Finished
    /\ \E g \in Labels :
          /\ StoresOf("bias", "read_noise", g) # {} /\ StoresOf("dark", "dark_current", g) # {}
          /\ StoresOf("ptc", "read_noise", g) # {} /\ StoresOf("ptc", "dark_current", g) # {}
          /\ det_gain[g] > 1

\* C11: every conversion of the PTC loop comes after every store of an ADU
\* value by the bias and dark sections, so once the flat section is through,
\* every read_noise and dark_current entry whose label has a gain is in
\* electrons: the value recorded in ADU times the gain of the label.
C11_OrderDependency ==
    /\ \A i \in ConversionStores : \A j \in ADUStores : j < i
    /\ FlatDone =>
          /\ \A g \in DOMAIN dark_current \cap DOMAIN det_gain :
                 LET adu == writes[Last(StoresOf("dark", "dark_current", g))].val
                 IN  RatEq(dark_current[g], RatMul(adu, det_gain[g]))
          /\ \A g \in DOMAIN read_noise \cap DOMAIN det_gain :
                 LET adu == writes[Last(StoresOf("bias", "read_noise", g))].val
                 IN  read_noise[g] = adu * det_gain[g]

\* the ramp of the n-th channel, its longest exposures, and the median in ADU
\* of the frame of an exposure
RampOf(n) == disk.flat[ChannelOrder[n][1]]
Longest(n) == {e \in DOMAIN RampOf(n) : \A j \in DOMAIN RampOf(n) :
                                            RampOf(n)[j].exp_time <= RampOf(n)[e].exp_time}
FrameMedian(n, e) == ImageMedian(Image(RampOf(n)[e].cds[ChannelOrder[n][2]]))
ChannelOf(g) == CHOOSE n \in 1..NChannels : ChannelLabel[n] = g

\* C12: the value the flat section stores in well_depth for a channel is the
\* median, in ADU, of the frame of an exposure of that channel's ramp that no
\* exposure exceeds in exposure time; the PTC loop replaces it by that median
\* times the gain k of the channel, which is what is stored once the flat
\* section is through.
C12_WellDepth ==
    /\ \A i \in Stores("flat", "well_depth") :
           /\ writes[i].key = ChannelLabel[writes[i].src]
           /\ \E e \in Longest(writes[i].src) : writes[i].val = FrameMedian(writes[i].src, e)
    /\ pc = "linearity" =>
           \A n \in 1..NChannels :
               /\ ChannelLabel[n] \in DOMAIN well_depth
               /\ \E e \in Longest(n) : well_depth[ChannelLabel[n]] = FrameMedian(n, e)
    /\ \A i \in Stores("ptc", "well_depth") :
           LET n == ChannelOf(writes[i].key)
           IN  \E e \in Longest(n) :
                   RatEq(writes[i].val, RatMul(FrameMedian(n, e), det_gain[writes[i].key]))
    /\ FlatDone =>
           \A n \in 1..NChannels :
               /\ ChannelLabel[n] \in DOMAIN well_depth
               /\ \E e \in Longest(n) :
                      RatEq(well_depth[ChannelLabel[n]],
                            RatMul(FrameMedian(n, e), det_gain[ChannelLabel[n]]))

\* C12 witness: a finished run with a channel whose longest exposure is not
\* the last of its ramp, whose frames have different medians, and whose well
\* depth was converted with a gain above 1
C12_Witness ==
    /\ Finished
    /\ \E n \in 1..NChannels :
          /\ Len(RampOf(n)) >= 2
          /\ Len(RampOf(n)) \notin Longest(n)
          /\ \A e \in Longest(n) : ~RatEq(FrameMedian(n, e), FrameMedian(n, Len(RampOf(n))))
          /\ StoresOf("ptc", "well_depth", ChannelLabel[n]) # {}
          /\ det_gain[ChannelLabel[n]] > 1

====
